---- MODULE Spec2Model ----
(***************************************************************************)
(* actix-bincode: the bounded streaming decode of a request payload        *)
(* (BincodeBody, src/src/body.rs), the Bincode<T> extractor                 *)
(* (src/src/lib.rs), its configuration (src/src/config.rs) and the error   *)
(* mapping (src/src/error.rs).                                             *)
(*                                                                         *)
(* One request is decoded per behaviour.  The caller either awaits          *)
(* BincodeBody::new(..)[.limit(..)] itself (entry = "body") or goes through *)
(* Bincode::<T>::from_request (entry = "extractor").  The payload stream    *)
(* yields its items one at a time; each `stream.next().await` that          *)
(* resolves is one step of the model.                                       *)
(*                                                                         *)
(* Option<X> is modelled as a sequence of length at most one.               *)
(* The target type U of the decode is Option<bool>, whose bincode encoding  *)
(* has two lengths (1 and 2 bytes).                                         *)
(***************************************************************************)
EXTENDS Integers, Sequences, FiniteSets, TLC

\* ---------------------------------------------------------------- bounds
MaxChunks == 2
MaxChunkLen == 2
MaxLimit == 2
MaxHint == 2
NumOps == 2

\* ------------------------------------------------------ program constants
DefaultBodyLimit == 262144

\* ---------------------------------------------------------------- Option
None == <<>>
Some(x) == <<x>>
IsSome(o) == o # <<>>
Unwrap(o) == o[1]

\* ------------------------------------------------------------------ bytes
Byte == {0, 1}

RECURSIVE SeqsUpTo(_, _)
SeqsUpTo(S, n) ==
    IF n = 0 THEN {<<>>}
    ELSE LET shorter == SeqsUpTo(S, n - 1)
         IN shorter \cup {Append(s, x) : s \in {t \in shorter : Len(t) = n - 1}, x \in S}

\* ------------------------------------------------------------ bincode codec
\* values of the target type Option<bool>
Values == {None, Some(FALSE), Some(TRUE)}

\* bincode::serialize of an Option<bool>: tag byte 0 for None; tag byte 1 and
\* the bool as one byte for Some.
serialize(v) ==
    IF v = None THEN <<0>>
    ELSE <<1, IF Unwrap(v) THEN 1 ELSE 0>>

Ok(v) == [ok |-> TRUE, val |-> Some(v), err |-> "none"]
Err(e) == [ok |-> FALSE, val |-> None, err |-> e]

\* bincode::deserialize::<Option<bool>>(&body), with `?` converting a
\* bincode::Error into BincodePayloadError::Deserialize.  Trailing bytes are
\* allowed by bincode::deserialize.
deserialize(buf) ==
    IF Len(buf) = 0 THEN Err("Deserialize")
    ELSE IF buf[1] = 0 THEN Ok(None)
    ELSE IF buf[1] # 1 THEN Err("Deserialize")
    ELSE IF Len(buf) < 2 THEN Err("Deserialize")
    ELSE IF buf[2] = 0 THEN Ok(Some(FALSE))
    ELSE IF buf[2] = 1 THEN Ok(Some(TRUE))
    ELSE Err("Deserialize")

\* ------------------------------------------------------------ request data
Mimes == {"application/bincode", "bincode", "text/plain", ""}

\* content-type predicates a caller installs (tests.rs:234 and an
\* accept-everything predicate)
Predicates == {"is_text_plain", "accept_any"}

predicate(p, mime) ==
    IF p = "is_text_plain" THEN mime = "text/plain" ELSE TRUE

\* Content-Length header values are short strings of characters.
DigitChars == <<"0", "1", "2", "3", "4", "5", "6", "7", "8", "9">>

DigitValue(c) == CHOOSE d \in 0..9 : DigitChars[d + 1] = c

IsDigit(c) == \E d \in 0..9 : DigitChars[d + 1] = c

RECURSIVE DigitsValue(_)
DigitsValue(s) ==
    IF Len(s) = 0 THEN 0
    ELSE 10 * DigitsValue(SubSeq(s, 1, Len(s) - 1)) + DigitValue(s[Len(s)])

\* a slip in the parse: a leading "-" is skipped like a leading "+"
parse_usize_lenient(s) ==
    LET digits == IF Len(s) > 0 /\ s[1] \in {"+", "-"} THEN Tail(s) ELSE s
    IN IF Len(digits) > 0 /\ \A i \in 1..Len(digits) : IsDigit(digits[i])
       THEN Some(DigitsValue(digits))
       ELSE None

\* str::parse::<usize>: an optional leading "+", then one or more digits.
parse_usize(s) ==
    LET digits == IF Len(s) > 0 /\ s[1] = "+" THEN Tail(s) ELSE s
    IN IF Len(digits) > 0 /\ \A i \in 1..Len(digits) : IsDigit(digits[i])
       THEN Some(DigitsValue(digits))
       ELSE None

RECURSIVE ToDecimal(_)
ToDecimal(n) ==
    IF n < 10 THEN <<DigitChars[n + 1]>>
    ELSE Append(ToDecimal(n \div 10), DigitChars[(n % 10) + 1])

\* a header value: decimal numbers, a word, a negative number, and a value
\* with a byte outside visible ASCII (written "0xFF")
HeaderValues ==
    {ToDecimal(n) : n \in 0..MaxHint} \cup {<<"x">>, <<"-", "1">>, <<"0xFF">>}

VisibleAscii == {DigitChars[i] : i \in 1..10} \cup {"+", "-", "x"}

\* HeaderValue::to_str: fails on a byte that is not visible ASCII
to_str(v) ==
    IF \A i \in 1..Len(v) : v[i] \in VisibleAscii THEN Some(v) ELSE None

\* req.headers().get(CONTENT_LENGTH).and_then(to_str).and_then(parse)
content_length(hdr) ==
    IF hdr = None THEN None
    ELSE IF to_str(Unwrap(hdr)) = None THEN None
    ELSE parse_usize(Unwrap(to_str(Unwrap(hdr))))

\* ----------------------------------------------------------- configuration
Handlers == {"fixed_body", "as_content_type"}

DEFAULT_CONFIG == [limit |-> 32768, err_handler |-> None, content_type |-> None]

\* BincodeConfig::limit
config_limit(cfg, l) == [cfg EXCEPT !.limit = l]

\* BincodeConfig::error_handler
error_handler(cfg, f) == [cfg EXCEPT !.err_handler = Some(f)]

\* BincodeConfig::content_type_raw
content_type_raw(cfg, p) == [cfg EXCEPT !.content_type = Some(p)]

\* every configuration the builder makes from BincodeConfig::default()
\* with a limit override in 0..MaxLimit
BuiltConfigs ==
    LET limited == {config_limit(DEFAULT_CONFIG, l) : l \in 0..MaxLimit}
        handled == limited \cup {error_handler(c, f) : c \in limited, f \in Handlers}
    IN handled \cup {content_type_raw(c, p) : c \in handled, p \in Predicates}

\* a slip in from_req: the Data<T> wrapper is looked up before T
from_req_wrapped_first(r) ==
    IF IsSome(r.app_data_wrapped) THEN Unwrap(r.app_data_wrapped)
    ELSE IF IsSome(r.app_data) THEN Unwrap(r.app_data)
    ELSE DEFAULT_CONFIG

\* BincodeConfig::from_req: T first, then Data<T>, then the default
from_req(r) ==
    IF IsSome(r.app_data) THEN Unwrap(r.app_data)
    ELSE IF IsSome(r.app_data_wrapped) THEN Unwrap(r.app_data_wrapped)
    ELSE DEFAULT_CONFIG

\* a slip in the content-type check: the short form "bincode" is forgotten
is_good_mime_full_only(mime, ctype) ==
    \/ mime = "application/bincode"
    \/ (IsSome(ctype) /\ predicate(Unwrap(ctype), mime))

\* a slip in the content-type check: the installed predicate is not consulted
is_good_mime_no_predicate(mime, ctype) ==
    \/ mime = "application/bincode"
    \/ mime = "bincode"

\* ------------------------------------------------------------------- gate
\* BincodeBody::new, the content-type check
is_good_mime(mime, ctype) ==
    \/ mime = "application/bincode"
    \/ mime = "bincode"
    \/ (IsSome(ctype) /\ predicate(Unwrap(ctype), mime))

\* a slip in error_response: every kind answers BAD_REQUEST
error_response_bad_request(e) == 400

\* ------------------------------------------------------------ error mapping
\* impl ResponseError for BincodePayloadError
error_response(e) == IF e = "Overflow" THEN 413 ELSE 400

\* e.into(): the actix_web::Error that wraps the BincodePayloadError
into_error(e) == [status |-> error_response(e), body |-> <<>>, cause |-> e]

\* the error handlers of tests.rs:76-80 and tests.rs:141
call_err_handler(h, e, r) ==
    IF h = "fixed_body"
    THEN [status |-> 400, body |-> serialize(Some(TRUE)), cause |-> e]
    ELSE into_error("ContentType")

\* a slip in the .map() closure: the installed handler is not applied
map_result_ignores_handler(r, handler, rq) ==
    IF ~r.ok
    THEN [ok |-> FALSE, val |-> None,
          error |-> Some([status |-> IF r.err = "Overflow" THEN 413 ELSE 400,
                          body |-> <<>>, cause |-> r.err])]
    ELSE [ok |-> TRUE, val |-> r.val, error |-> None]

\* the closure given to .map() in Bincode::from_request
map_result(r, handler, rq) ==
    IF ~r.ok
    THEN IF IsSome(handler)
         THEN [ok |-> FALSE, val |-> None,
               error |-> Some(call_err_handler(Unwrap(handler), r.err, rq))]
         ELSE [ok |-> FALSE, val |-> None, error |-> Some(into_error(r.err))]
    ELSE [ok |-> TRUE, val |-> r.val, error |-> None]

\* a slip in the per-chunk check: the buffer is tested before the chunk is
\* counted
chunk_overflows_before_append(bodyLen, chunkLen, lim) == bodyLen > lim

\* a slip in the per-chunk check: only the chunk's own length is tested
chunk_overflows_chunk_only(bodyLen, chunkLen, lim) == chunkLen > lim

\* a slip in the per-chunk check: >= instead of >
chunk_overflows_ge(bodyLen, chunkLen, lim) == (bodyLen + chunkLen) >= lim

\* the per-chunk size check of the draining loop
chunk_overflows(bodyLen, chunkLen, lim) == (bodyLen + chunkLen) > lim

\* a slip in the length-hint check: the built-in limit is used, not self.limit
length_overflows_builtin(len, lim) == IsSome(len) /\ Unwrap(len) > DefaultBodyLimit

\* the length-hint check of poll
length_overflows(len, lim) == IsSome(len) /\ Unwrap(len) > lim

\* ------------------------------------------------------------------ state
VARIABLES
    req,          \* the HttpRequest: mime, Content-Length, app data
    entry,        \* which API the caller uses: "body", "extractor" or, to
                  \* answer instead of decode, "responder"
    pc,           \* the decode's position: "start", "built", "draining",
                  \* "ready", "done"
    payload,      \* the caller's Payload handle: "Some" until taken
    ctype,        \* the predicate handed to BincodeBody::new
    limit,        \* BincodeBody.limit
    length,       \* BincodeBody.length
    stream,       \* BincodeBody.stream: "None", "Some", or "Moved" into fut
    err,          \* BincodeBody.err
    fut,          \* BincodeBody.fut: None or Some("running" / "finished")
    body,         \* the BytesMut of the draining loop
    delivered,    \* the items stream.next() has yielded so far
    eof,          \* stream.next() has yielded None
    codec_input,  \* the buffers handed to bincode::deserialize
    res,          \* the output of the BincodeBody future
    config,       \* from_request: the configuration from_req returned
    err_handler,  \* from_request: the handler the closure captured
    handler_calls,\* how often the error handler ran
    out,          \* the output of the extractor future
    resp_in,      \* the value answered with and the API used
    resp,         \* the HttpResponse built from it
    arrived,      \* the payload holds an item the loop has not read yet
    suspended,    \* the last poll returned Pending
    ops,          \* the decodes in flight at once, one record each
    default_config  \* the process-wide DEFAULT_CONFIG

vars == <<req, entry, pc, payload, ctype, limit, length, stream, err, fut, body,
          delivered, eof, codec_input, res, config, err_handler, handler_calls,
          out, resp_in, resp, arrived, suspended, ops, default_config>>

\* one item of the payload stream: Ok(Bytes) or Err(PayloadError)
Chunks == SeqsUpTo(Byte, MaxChunkLen)
ChunkItem(b) == [ok |-> TRUE, bytes |-> b]
ErrorItem == [ok |-> FALSE, bytes |-> <<>>]

Requests(mimes, headers, direct, wrapped) ==
    [mime : mimes, content_length : headers,
     app_data : direct, app_data_wrapped : wrapped]

InitRest ==
    /\ pc = "start"
    /\ payload = "Some"
    /\ ctype = None
    /\ limit = 0
    /\ length = None
    /\ stream = "None"
    /\ err = None
    /\ fut = None
    /\ body = <<>>
    /\ delivered = <<>>
    /\ eof = FALSE
    /\ codec_input = <<>>
    /\ res = None
    /\ config = None
    /\ err_handler = None
    /\ handler_calls = 0
    /\ out = None
    /\ resp_in = None
    /\ resp = None
    /\ arrived = FALSE
    /\ suspended = FALSE
    /\ default_config = DEFAULT_CONFIG

\* the handler that only answers: TestRequest::default()
InitResponder ==
    /\ entry = "responder"
    /\ req \in Requests({""}, {None}, {None}, {None})

\* any request; the caller that builds the body itself attaches no
\* configuration, the extractor's request carries none, the unmodified
\* BincodeConfig::default() or a built one without an error handler
Init ==
    /\ \/ /\ entry = "body"
          /\ req \in Requests(Mimes, {None} \cup {Some(h) : h \in HeaderValues},
                              {None}, {None})
       \/ /\ entry = "extractor"
          /\ req \in Requests(Mimes, {None} \cup {Some(h) : h \in HeaderValues},
                              {None, Some(DEFAULT_CONFIG)}
                                  \cup {Some(c) : c \in {b \in BuiltConfigs :
                                                         b.err_handler = None}},
                              {None})
       \/ InitResponder
    /\ InitRest
    /\ ops = <<>>

\* requests that carry configurations: directly (app_data::<BincodeConfig>),
\* wrapped (app_data::<web::Data<BincodeConfig>>), both or neither; the caller
\* that builds the body itself attaches none
InitCfg ==
    /\ \/ /\ entry = "extractor"
          /\ req \in Requests({"application/bincode", "text/plain"},
                              {None, Some(ToDecimal(MaxHint))},
                              {None} \cup {Some(c) : c \in BuiltConfigs},
                              {None} \cup {Some(c) : c \in BuiltConfigs})
       \/ /\ entry = "body"
          /\ req \in Requests({"text/plain"}, {None}, {None}, {None})
       \/ InitResponder
    /\ InitRest
    /\ ops = <<>>

\* a slip in BincodeBody::new: the payload is taken before the content-type
\* check
new_takes_first(mime, hdr, predicateArg) ==
    IF ~is_good_mime(mime, predicateArg)
    THEN [limit |-> DefaultBodyLimit, length |-> None, stream |-> "None",
          err |-> Some("ContentType"), taken |-> TRUE]
    ELSE [limit |-> DefaultBodyLimit, length |-> content_length(hdr),
          stream |-> "Some", err |-> None, taken |-> TRUE]

\* a slip in BincodeBody::new: the body starts from the configuration's
\* default limit
new_config_default(mime, hdr, predicateArg) ==
    IF ~is_good_mime(mime, predicateArg)
    THEN [limit |-> DEFAULT_CONFIG.limit, length |-> None, stream |-> "None",
          err |-> Some("ContentType"), taken |-> FALSE]
    ELSE [limit |-> DEFAULT_CONFIG.limit, length |-> content_length(hdr),
          stream |-> "Some", err |-> None, taken |-> TRUE]

\* BincodeBody::new(req, payload, ctype)
new(mime, hdr, predicateArg) ==
    IF ~is_good_mime(mime, predicateArg)
    THEN [limit |-> DefaultBodyLimit, length |-> None, stream |-> "None",
          err |-> Some("ContentType"), taken |-> FALSE]
    ELSE [limit |-> DefaultBodyLimit, length |-> content_length(hdr),
          stream |-> "Some", err |-> None, taken |-> TRUE]

\* the caller builds the body itself: BincodeBody::new(&req, &mut pl, ctype)
NewBody(p) ==
    /\ pc = "start"
    /\ entry = "body"
    /\ LET b == new(req.mime, req.content_length, p)
       IN /\ limit' = b.limit
          /\ length' = b.length
          /\ stream' = b.stream
          /\ err' = b.err
          /\ payload' = IF b.taken THEN "None" ELSE payload
    /\ ctype' = p
    /\ pc' = "built"
    /\ UNCHANGED <<req, entry, fut, body, delivered, eof, codec_input, res,
                   config, err_handler, handler_calls, out, resp_in, resp,
                   arrived, suspended, ops, default_config>>

\* BincodeBody::limit on a body not yet polled
BodyLimit(l) ==
    /\ pc = "built"
    /\ entry = "body"
    /\ limit' = l
    /\ UNCHANGED <<req, entry, pc, payload, ctype, length, stream, err, fut,
                   body, delivered, eof, codec_input, res, config,
                   err_handler, handler_calls, out, resp_in, resp, arrived,
                   suspended, ops, default_config>>

\* a slip in from_request: .limit(limit) is left out and the body keeps its
\* built-in limit
FromRequest_keeps_builtin ==
    /\ pc = "start"
    /\ entry = "extractor"
    /\ LET cfg == from_req(req)
           b == new(req.mime, req.content_length, cfg.content_type)
       IN /\ config' = Some(cfg)
          /\ ctype' = cfg.content_type
          /\ err_handler' = cfg.err_handler
          /\ limit' = b.limit
          /\ length' = b.length
          /\ stream' = b.stream
          /\ err' = b.err
          /\ payload' = IF b.taken THEN "None" ELSE payload
    /\ pc' = "built"
    /\ UNCHANGED <<req, entry, fut, body, delivered, eof, codec_input, res,
                   handler_calls, out, resp_in, resp, arrived, suspended,
                   ops, default_config>>

\* Bincode::from_request up to the construction of the mapped future
FromRequest ==
    /\ pc = "start"
    /\ entry = "extractor"
    /\ LET cfg == from_req(req)
           b == new(req.mime, req.content_length, cfg.content_type)
       IN /\ config' = Some(cfg)
          /\ ctype' = cfg.content_type
          /\ err_handler' = cfg.err_handler
          /\ limit' = cfg.limit
          /\ length' = b.length
          /\ stream' = b.stream
          /\ err' = b.err
          /\ payload' = IF b.taken THEN "None" ELSE payload
    /\ pc' = "built"
    /\ UNCHANGED <<req, entry, fut, body, delivered, eof, codec_input, res,
                   handler_calls, out, resp_in, resp, arrived, suspended, ops,
                   default_config>>

\* a slip in poll: the declared length is tested before the stored error
PollStart_hint_first ==
    /\ pc = "built"
    /\ fut = None
    /\ IF length_overflows(content_length(req.content_length), limit)
       THEN /\ res' = Some(Err("Overflow"))
            /\ length' = None
            /\ pc' = "ready"
            /\ UNCHANGED <<err, stream, fut, body>>
       ELSE IF IsSome(err)
       THEN /\ res' = Some(Err(Unwrap(err)))
            /\ err' = None
            /\ pc' = "ready"
            /\ UNCHANGED <<length, stream, fut, body>>
       ELSE /\ length' = None
            /\ stream' = "Moved"
            /\ fut' = Some("running")
            /\ body' = <<>>
            /\ pc' = "draining"
            /\ UNCHANGED <<err, res>>
    /\ UNCHANGED <<req, entry, payload, ctype, limit, delivered, eof,
                   codec_input, config, err_handler, handler_calls, out,
                   resp_in, resp, arrived, suspended, ops, default_config>>

\* first poll of BincodeBody: the stored error, the length hint, then the
\* draining future is created
PollStart ==
    /\ pc = "built"
    /\ fut = None
    /\ IF IsSome(err)
       THEN /\ res' = Some(Err(Unwrap(err)))
            /\ err' = None
            /\ pc' = "ready"
            /\ UNCHANGED <<length, stream, fut, body>>
       ELSE IF length_overflows(length, limit)
       THEN /\ res' = Some(Err("Overflow"))
            /\ length' = None
            /\ pc' = "ready"
            /\ UNCHANGED <<err, stream, fut, body>>
       ELSE /\ length' = None
            /\ stream' = "Moved"
            /\ fut' = Some("running")
            /\ body' = <<>>
            /\ pc' = "draining"
            /\ UNCHANGED <<err, res>>
    /\ UNCHANGED <<req, entry, payload, ctype, limit, delivered, eof,
                   codec_input, config, err_handler, handler_calls, out,
                   resp_in, resp, arrived, suspended, ops, default_config>>

\* a slip in the draining loop: the overflow is recorded but the loop goes on
ReadChunk_keeps_draining(chunk) ==
    /\ pc = "draining"
    /\ arrived
    /\ arrived' = FALSE
    /\ suspended' = FALSE
    /\ Len(delivered) < MaxChunks
    /\ delivered' = Append(delivered, ChunkItem(chunk))
    /\ IF chunk_overflows(Len(body), Len(chunk), limit)
       THEN /\ res' = Some(Err("Overflow"))
            /\ UNCHANGED <<body, fut, pc>>
       ELSE /\ body' = body \o chunk
            /\ UNCHANGED <<res, fut, pc>>
    /\ UNCHANGED <<req, entry, payload, ctype, limit, length, stream, err,
                   eof, codec_input, config, err_handler, handler_calls, out,
                   resp_in, resp, ops, default_config>>

\* stream.next() yields Some(Ok(chunk))
ReadChunk(chunk) ==
    /\ pc = "draining"
    /\ arrived
    /\ arrived' = FALSE
    /\ suspended' = FALSE
    /\ Len(delivered) < MaxChunks
    /\ delivered' = Append(delivered, ChunkItem(chunk))
    /\ IF chunk_overflows(Len(body), Len(chunk), limit)
       THEN /\ res' = Some(Err("Overflow"))
            /\ fut' = Some("finished")
            /\ pc' = "ready"
            /\ UNCHANGED body
       ELSE /\ body' = body \o chunk
            /\ UNCHANGED <<res, fut, pc>>
    /\ UNCHANGED <<req, entry, payload, ctype, limit, length, stream, err,
                   eof, codec_input, config, err_handler, handler_calls, out,
                   resp_in, resp, ops, default_config>>

\* a slip in the draining loop: a read failure ends the stream and the
\* partial buffer is decoded
ReadError_decodes_partial ==
    /\ pc = "draining"
    /\ arrived
    /\ arrived' = FALSE
    /\ suspended' = FALSE
    /\ Len(delivered) < MaxChunks
    /\ delivered' = Append(delivered, ErrorItem)
    /\ codec_input' = Append(codec_input, body)
    /\ res' = Some(deserialize(body))
    /\ fut' = Some("finished")
    /\ pc' = "ready"
    /\ UNCHANGED <<req, entry, payload, ctype, limit, length, stream, err,
                   body, eof, config, err_handler, handler_calls, out,
                   resp_in, resp, ops, default_config>>

\* stream.next() yields Some(Err(e)): `item?` returns Payload(e)
ReadError ==
    /\ pc = "draining"
    /\ arrived
    /\ arrived' = FALSE
    /\ suspended' = FALSE
    /\ Len(delivered) < MaxChunks
    /\ delivered' = Append(delivered, ErrorItem)
    /\ res' = Some(Err("Payload"))
    /\ fut' = Some("finished")
    /\ pc' = "ready"
    /\ UNCHANGED <<req, entry, payload, ctype, limit, length, stream, err,
                   body, eof, codec_input, config, err_handler, handler_calls,
                   out, resp_in, resp, ops, default_config>>

\* a slip at the end of the stream: a rejected buffer is decoded a second time
ReadEnd_retries ==
    /\ pc = "draining"
    /\ arrived
    /\ arrived' = FALSE
    /\ suspended' = FALSE
    /\ eof' = TRUE
    /\ codec_input' = IF deserialize(body).ok
                      THEN Append(codec_input, body)
                      ELSE Append(Append(codec_input, body), body)
    /\ res' = Some(deserialize(body))
    /\ fut' = Some("finished")
    /\ pc' = "ready"
    /\ UNCHANGED <<req, entry, payload, ctype, limit, length, stream, err,
                   body, delivered, config, err_handler, handler_calls, out,
                   resp_in, resp, ops, default_config>>

\* a slip at the end of the stream: the end of the data is taken for an
\* empty chunk and the loop asks for the next item
ReadEnd_awaits_more ==
    /\ pc = "draining"
    /\ arrived
    /\ arrived' = FALSE
    /\ suspended' = FALSE
    /\ eof' = TRUE
    /\ UNCHANGED <<req, entry, pc, payload, ctype, limit, length, stream, err,
                   fut, body, delivered, codec_input, res, config,
                   err_handler, handler_calls, out, resp_in, resp, ops,
                   default_config>>

\* stream.next() yields None: the buffer goes to the codec
ReadEnd ==
    /\ pc = "draining"
    /\ arrived
    /\ arrived' = FALSE
    /\ suspended' = FALSE
    /\ eof' = TRUE
    /\ codec_input' = Append(codec_input, body)
    /\ res' = Some(deserialize(body))
    /\ fut' = Some("finished")
    /\ pc' = "ready"
    /\ UNCHANGED <<req, entry, payload, ctype, limit, length, stream, err,
                   body, delivered, config, err_handler, handler_calls, out,
                   resp_in, resp, ops, default_config>>

\* the Payload stream receives its next item (a chunk, a read failure or
\* the end of the data) and wakes the task
Deliver ==
    /\ pc = "draining"
    /\ ~arrived
    /\ arrived' = TRUE
    /\ UNCHANGED <<req, entry, pc, payload, ctype, limit, length, stream, err,
                   fut, body, delivered, eof, codec_input, res, config,
                   err_handler, handler_calls, out, resp_in, resp, suspended,
                   ops, default_config>>

\* a slip in poll: the future yields once before it looks at the body
AwaitChunk_yields_first ==
    /\ pc \in {"built", "draining"}
    /\ ~suspended
    /\ ~arrived
    /\ suspended' = TRUE
    /\ UNCHANGED <<req, entry, pc, payload, ctype, limit, length, stream, err,
                   fut, body, delivered, eof, codec_input, res, config,
                   err_handler, handler_calls, out, resp_in, resp, arrived,
                   ops, default_config>>

\* stream.next().await finds no item: poll returns Poll::Pending
AwaitChunk ==
    /\ pc = "draining"
    /\ ~suspended
    /\ ~arrived
    /\ suspended' = TRUE
    /\ UNCHANGED <<req, entry, pc, payload, ctype, limit, length, stream, err,
                   fut, body, delivered, eof, codec_input, res, config,
                   err_handler, handler_calls, out, resp_in, resp, arrived,
                   ops, default_config>>

\* the .map() closure of from_request runs on the body's output
MapResult ==
    /\ pc = "ready"
    /\ entry = "extractor"
    /\ out' = Some(map_result(Unwrap(res), err_handler, req))
    /\ handler_calls' =
           IF ~Unwrap(res).ok /\ IsSome(err_handler)
           THEN handler_calls + 1 ELSE handler_calls
    /\ pc' = "done"
    /\ UNCHANGED <<req, entry, payload, ctype, limit, length, stream, err,
                   fut, body, delivered, eof, codec_input, res, config,
                   err_handler, resp_in, resp, arrived, suspended, ops,
                   default_config>>

\* ------------------------------------------------------------ responding
\* a value to answer with: one of the target type's values, behind a
\* Serialize impl that bincode can or cannot encode
ResponseValues == [serializable : BOOLEAN, val : Values]

\* bincode::serialize(&self.0): Ok(bytes) or Err
try_serialize(v) == IF v.serializable THEN Some(serialize(v.val)) ELSE None

\* a slip in respond_to: the generic binary content type
respond_to_octet_stream(v) ==
    IF IsSome(try_serialize(v))
    THEN [status |-> 200, content_type |-> "application/octet-stream",
          body |-> Unwrap(try_serialize(v)), text |-> "", reason |-> ""]
    ELSE [status |-> 500, content_type |-> "", body |-> <<>>,
          text |-> "Internal Server Error", reason |-> ""]

\* impl Responder for Bincode<T>: respond_to
respond_to(v) ==
    IF IsSome(try_serialize(v))
    THEN [status |-> 200, content_type |-> "application/bincode",
          body |-> Unwrap(try_serialize(v)), text |-> "", reason |-> ""]
    ELSE [status |-> 500, content_type |-> "", body |-> <<>>,
          text |-> "Internal Server Error", reason |-> ""]

\* the statuses a HttpResponseBuilder is created with
BuilderStatuses == {200, 201}

\* HttpResponseBuilderExt::bincode2 on a builder created with status st
bincode2(st, v) ==
    IF IsSome(try_serialize(v))
    THEN [status |-> st, content_type |-> "application/bincode",
          body |-> Unwrap(try_serialize(v)), text |-> "", reason |-> ""]
    ELSE [status |-> 500, content_type |-> "", body |-> <<>>, text |-> "",
          reason |-> "unable to serialize bincode."]

\* Bincode(v).respond_to(&req)
RespondTo(v) ==
    /\ entry = "responder"
    /\ resp = None
    /\ resp_in' = Some([api |-> "respond_to", status |-> 200, value |-> v])
    /\ resp' = Some(respond_to(v))
    /\ UNCHANGED <<req, entry, pc, payload, ctype, limit, length, stream, err,
                   fut, body, delivered, eof, codec_input, res, config,
                   err_handler, handler_calls, out, arrived, suspended, ops,
                   default_config>>

\* builder.bincode(v) / builder.bincode2(&v)
BuilderBincode(st, v) ==
    /\ entry = "responder"
    /\ resp = None
    /\ resp_in' = Some([api |-> "bincode2", status |-> st, value |-> v])
    /\ resp' = Some(bincode2(st, v))
    /\ UNCHANGED <<req, entry, pc, payload, ctype, limit, length, stream, err,
                   fut, body, delivered, eof, codec_input, res, config,
                   err_handler, handler_calls, out, arrived, suspended, ops,
                   default_config>>

Next ==
    \/ \E p \in {None} \cup {Some(q) : q \in Predicates} : NewBody(p)
    \/ \E l \in 0..MaxLimit : BodyLimit(l)
    \/ FromRequest
    \/ PollStart
    \/ \E chunk \in Chunks : ReadChunk(chunk)
    \/ ReadError
    \/ ReadEnd
    \/ Deliver
    \/ AwaitChunk
    \/ MapResult
    \/ \E v \in ResponseValues : RespondTo(v)
    \/ \E st \in BuilderStatuses, v \in ResponseValues : BuilderBincode(st, v)

Spec == Init /\ [][Next]_vars

\* a few requests of each entry, for the behaviours that must make progress
InitLive ==
    /\ \/ /\ entry = "body"
          /\ req \in Requests({"application/bincode", "text/plain"},
                              {None, Some(ToDecimal(MaxHint))}, {None}, {None})
       \/ /\ entry = "extractor"
          /\ req \in Requests({"bincode"}, {None},
                              {None, Some(DEFAULT_CONFIG)}, {None})
       \/ InitResponder
    /\ InitRest
    /\ ops = <<>>

\* the woken task is polled again and the loop takes the item that arrived
Resume ==
    \/ \E chunk \in Chunks : ReadChunk(chunk)
    \/ ReadError
    \/ ReadEnd

\* the executor keeps polling the future (first poll, and again after each
\* wake-up), and the stream delivers every item it has, down to the end of
\* the data
Fairness ==
    /\ WF_vars(PollStart)
    /\ WF_vars(Resume)
    /\ WF_vars(Deliver)

SpecLive == InitLive /\ [][Next]_vars /\ Fairness

\* ------------------------------------------------- several decodes at once
\* the variables of the single decode, left alone by the decodes in flight
decodeVars == <<req, entry, pc, payload, ctype, limit, length, stream, err,
                fut, body, delivered, eof, codec_input, res, config,
                err_handler, handler_calls, out, resp_in, resp, arrived,
                suspended>>

\* the chunks of the stream of decode i: one byte each, 1 for the odd
\* decodes and 0 for the even ones
OpChunks(i) == {<<i % 2>>}

\* a decode that has not started: its own request, BincodeBody and buffer
OpStart(r) ==
    [req |-> r, pc |-> "start", limit |-> 0, length |-> None, err |-> None,
     body |-> <<>>, delivered |-> <<>>, eof |-> FALSE, res |-> None]

\* NumOps requests, accepted or rejected by the gate, with or without a
\* length header, none with a configuration yet
InitOps ==
    /\ entry = "concurrent"
    /\ req \in Requests({""}, {None}, {None}, {None})
    /\ InitRest
    /\ ops \in [1..NumOps ->
                  {OpStart(r) : r \in Requests({"bincode", "text/plain"},
                                               {None, Some(ToDecimal(MaxHint))},
                                               {None}, {None})}]

\* .app_data(BincodeConfig::default().limit(l)) on the request of decode i:
\* default() clones DEFAULT_CONFIG
OpConfigure(i, l) ==
    /\ ops[i].pc = "start"
    /\ ops[i].req.app_data = None
    /\ ops' = [ops EXCEPT ![i].req.app_data =
                              Some(config_limit(default_config, l))]
    /\ UNCHANGED <<decodeVars, default_config>>

\* Bincode::from_request for decode i
OpFromRequest(i) ==
    /\ ops[i].pc = "start"
    /\ LET r == ops[i].req
           cfg == IF IsSome(r.app_data) \/ IsSome(r.app_data_wrapped)
                  THEN from_req(r) ELSE default_config
           b == new(r.mime, r.content_length, cfg.content_type)
       IN ops' = [ops EXCEPT ![i].limit = cfg.limit,
                             ![i].length = b.length,
                             ![i].err = b.err,
                             ![i].pc = "built"]
    /\ UNCHANGED <<decodeVars, default_config>>

\* the first poll of decode i
OpPollStart(i) ==
    /\ ops[i].pc = "built"
    /\ ops' = IF IsSome(ops[i].err)
              THEN [ops EXCEPT ![i].res = Some(Err(Unwrap(ops[i].err))),
                               ![i].err = None,
                               ![i].pc = "ready"]
              ELSE IF length_overflows(ops[i].length, ops[i].limit)
              THEN [ops EXCEPT ![i].res = Some(Err("Overflow")),
                               ![i].length = None,
                               ![i].pc = "ready"]
              ELSE [ops EXCEPT ![i].length = None,
                               ![i].pc = "draining"]
    /\ UNCHANGED <<decodeVars, default_config>>

\* a slip in the draining loop: one buffer serves every decode in flight
OpReadChunk_shared_buffer(i, chunk) ==
    /\ ops[i].pc = "draining"
    /\ Len(ops[i].delivered) < MaxChunks
    /\ ops' = [j \in DOMAIN ops |->
                 IF j = i
                 THEN IF chunk_overflows(Len(ops[i].body), Len(chunk), ops[i].limit)
                      THEN [ops[i] EXCEPT
                              !.delivered = Append(@, ChunkItem(chunk)),
                              !.res = Some(Err("Overflow")),
                              !.pc = "ready"]
                      ELSE [ops[i] EXCEPT
                              !.delivered = Append(@, ChunkItem(chunk)),
                              !.body = @ \o chunk]
                 ELSE IF ops[j].pc = "draining"
                      THEN [ops[j] EXCEPT !.body = @ \o chunk]
                      ELSE ops[j]]
    /\ UNCHANGED <<decodeVars, default_config>>

\* the stream of decode i yields Some(Ok(chunk))
OpReadChunk(i, chunk) ==
    /\ ops[i].pc = "draining"
    /\ Len(ops[i].delivered) < MaxChunks
    /\ ops' = IF chunk_overflows(Len(ops[i].body), Len(chunk), ops[i].limit)
              THEN [ops EXCEPT ![i].delivered = Append(@, ChunkItem(chunk)),
                               ![i].res = Some(Err("Overflow")),
                               ![i].pc = "ready"]
              ELSE [ops EXCEPT ![i].delivered = Append(@, ChunkItem(chunk)),
                               ![i].body = @ \o chunk]
    /\ UNCHANGED <<decodeVars, default_config>>

\* the stream of decode i yields Some(Err(e))
OpReadError(i) ==
    /\ ops[i].pc = "draining"
    /\ Len(ops[i].delivered) < MaxChunks
    /\ ops' = [ops EXCEPT ![i].delivered = Append(@, ErrorItem),
                          ![i].res = Some(Err("Payload")),
                          ![i].pc = "ready"]
    /\ UNCHANGED <<decodeVars, default_config>>

\* the stream of decode i yields None
OpReadEnd(i) ==
    /\ ops[i].pc = "draining"
    /\ ops' = [ops EXCEPT ![i].eof = TRUE,
                          ![i].res = Some(deserialize(ops[i].body)),
                          ![i].pc = "ready"]
    /\ UNCHANGED <<decodeVars, default_config>>

\* the scheduler runs one step of one decode
NextOps ==
    \E i \in 1..NumOps :
        \/ \E l \in 0..MaxLimit : OpConfigure(i, l)
        \/ OpFromRequest(i)
        \/ OpPollStart(i)
        \/ \E chunk \in OpChunks(i) : OpReadChunk(i, chunk)
        \/ OpReadError(i)
        \/ OpReadEnd(i)

SpecOps == InitOps /\ [][NextOps]_vars

SpecCfg == InitCfg /\ [][Next]_vars

\* ===================================================================
\* Properties
\* ===================================================================

\* what the request says, read off the request alone
FixedAccept == {"application/bincode", "bincode"}

PredicateHolds ==
    \/ ctype = Some("accept_any")
    \/ (ctype = Some("is_text_plain") /\ req.mime = "text/plain")

Accepted == req.mime \in FixedAccept \/ PredicateHolds

\* the gate's verdict as the body shows it
Rejected ==
    \/ err = Some("ContentType")
    \/ (IsSome(res) /\ Unwrap(res).err = "ContentType")

\* the declared length, when the header holds a decimal number
Hint ==
    IF \E n \in 0..MaxHint : req.content_length = Some(ToDecimal(n))
    THEN Some(CHOOSE n \in 0..MaxHint : req.content_length = Some(ToDecimal(n)))
    ELSE None

HintWithin(lim) == Hint = None \/ Unwrap(Hint) <= lim

Finished == pc \in {"ready", "done"}

Failed(kind) == IsSome(res) /\ Unwrap(res) = [ok |-> FALSE, val |-> None, err |-> kind]

RECURSIVE Total(_, _)
\* bytes in the first k items delivered
Total(items, k) ==
    IF k = 0 THEN 0 ELSE Total(items, k - 1) + Len(items[k].bytes)

RECURSIVE Concat(_)
Concat(items) ==
    IF Len(items) = 0 THEN <<>>
    ELSE Concat(SubSeq(items, 1, Len(items) - 1)) \o items[Len(items)].bytes

AllOk(items) == \A i \in 1..Len(items) : items[i].ok

\* the running total first exceeds the limit at chunk k
FirstExceeds(k) ==
    /\ k \in 1..Len(delivered)
    /\ Total(delivered, k) > limit
    /\ \A j \in 1..(k - 1) : Total(delivered, j) <= limit

\* the configuration the request resolves to, by precedence
Resolved ==
    IF req.app_data # <<>> THEN req.app_data[1]
    ELSE IF req.app_data_wrapped # <<>> THEN req.app_data_wrapped[1]
    ELSE [limit |-> 32768, err_handler |-> <<>>, content_type |-> <<>>]

\* C1: the accumulation buffer never holds more than the resolved limit, and
\* a chunk that would take it over the limit is not appended: the operation
\* fails with Overflow instead.
C1_BufferWithinLimit ==
    /\ [](pc # "start" => Len(body) <= limit)
    /\ [][(/\ pc = "draining"
           /\ Len(delivered') = Len(delivered) + 1
           /\ delivered'[Len(delivered')].ok
           /\ Len(body) + Len(delivered'[Len(delivered')].bytes) > limit)
          => (body' = body /\ pc' = "ready" /\ Failed("Overflow")')]_vars

C1_Witness ==
    /\ pc = "ready"
    /\ Failed("Overflow")
    /\ Len(delivered) = 2
    /\ Len(body) >= 1
    /\ Len(body) = Total(delivered, 1)
    /\ Total(delivered, 2) > limit

\* C2: when the running total over the chunks first exceeds the limit at
\* chunk k (the length hint being absent or within the limit), the operation
\* has failed with Overflow and exactly k chunks were read, never more.
C2_OverflowAtFirstExceedingChunk ==
    \A k \in 1..MaxChunks + 1 :
        (pc # "start" /\ HintWithin(limit) /\ FirstExceeds(k))
        => (Finished /\ Failed("Overflow") /\ Len(delivered) = k)

\* an understating hint: 1 byte declared, 3 or more sent, limit 2
C2_Witness ==
    /\ Finished
    /\ Hint = Some(1)
    /\ limit = 2
    /\ FirstExceeds(2)
    /\ Failed("Overflow")

\* C3: a length hint above the resolved limit, on a request the gate
\* accepts, fails with Overflow and nothing is read from the stream.
C3_HintAboveLimitFailsUnread ==
    (pc \in {"draining", "ready", "done"} /\ Accepted
     /\ Hint # None /\ Unwrap(Hint) > limit)
    => (Finished /\ Failed("Overflow") /\ delivered = <<>> /\ ~eof
        /\ stream = "Some" /\ fut = None)

C3_Witness ==
    /\ pc = "ready"
    /\ entry = "body"
    /\ Accepted
    /\ Hint = Some(2)
    /\ limit = 1
    /\ Failed("Overflow")

\* C4: a request the gate rejects ends with ContentType without any stream
\* interaction: the payload stays with the caller and nothing is read.
C4_RejectedTouchesNoStream ==
    (pc # "start" /\ ~Accepted)
    => /\ payload = "Some"
       /\ stream = "None"
       /\ delivered = <<>>
       /\ ~eof
       /\ pc # "draining"
       /\ Finished => Failed("ContentType")

C4_Witness ==
    /\ pc = "ready"
    /\ ~Accepted
    /\ Hint = Some(2)
    /\ limit = 1
    /\ Failed("ContentType")

C6_GateEqualsPredicate ==
    (pc # "start" /\ ctype # None) => (~Rejected <=> PredicateHolds)

\* C6: with a predicate installed, a descriptor is accepted iff it is one of
\* the two fixed descriptors or the predicate returns true for it.
C6_GateIsFixedSetOrPredicate ==
    (pc # "start" /\ ctype # None)
    => (~Rejected <=> (req.mime \in FixedAccept \/ PredicateHolds))

C6_Witness ==
    /\ ctype = Some("is_text_plain")
    /\ req.mime = "text/plain"
    /\ pc = "draining"

\* C7: when the operation has finished on an accepted request whose hint is
\* absent or within the limit and whose chunks all arrived intact with a
\* total within the limit, it finished at end-of-data, the codec was handed
\* the in-order concatenation of the chunks, and bytes that encode v decode
\* to v.
C7_RoundTripUnderAnySplit ==
    (Finished /\ Accepted /\ HintWithin(limit)
     /\ AllOk(delivered) /\ Total(delivered, Len(delivered)) <= limit)
    => /\ eof
       /\ codec_input = <<Concat(delivered)>>
       /\ \A v \in Values :
            Concat(delivered) = serialize(v)
            => Unwrap(res) = [ok |-> TRUE, val |-> Some(v), err |-> "none"]

\* Some(true) in two chunks, total exactly the limit
C7_Witness ==
    /\ Finished
    /\ limit = 2
    /\ Hint = Some(2)
    /\ delivered = <<ChunkItem(<<1>>), ChunkItem(<<1>>)>>
    /\ Unwrap(res).ok
    /\ Unwrap(res).val = Some(Some(TRUE))

\* what each handler answers, from tests.rs
HandlerAnswer(h, kind) ==
    IF h = "fixed_body"
    THEN [status |-> 400, body |-> <<1, 1>>, cause |-> kind]
    ELSE [status |-> 400, body |-> <<>>, cause |-> "ContentType"]

\* C8: with an error handler in the resolved configuration every failure of
\* the extractor is reported as the handler's answer, the default status
\* mapping is not applied, and the handler does not run on success.
C8_HandlerDecidesEveryFailure ==
    (entry = "extractor" /\ Resolved.err_handler # <<>>)
    => /\ pc # "done" => (handler_calls = 0 /\ out = None)
       /\ pc = "done"
            => IF Unwrap(res).ok
               THEN /\ handler_calls = 0
                    /\ Unwrap(out) =
                         [ok |-> TRUE, val |-> Unwrap(res).val, error |-> None]
               ELSE /\ handler_calls = 1
                    /\ Unwrap(out) =
                         [ok |-> FALSE, val |-> None,
                          error |-> Some(HandlerAnswer(Resolved.err_handler[1],
                                                       Unwrap(res).err))]

C8_Witness ==
    /\ pc = "done"
    /\ Resolved.err_handler = Some("fixed_body")
    /\ Failed("Overflow")
    /\ Unwrap(Unwrap(out).error).status = 400
    /\ Unwrap(Unwrap(out).error).body = <<1, 1>>

C10_SingleSourceByPrecedence ==
    (entry = "extractor" /\ pc # "start")
    => /\ config = Some(Resolved)
       /\ limit = Resolved.limit
       /\ ctype = Resolved.content_type
       /\ err_handler = Resolved.err_handler

C10_Witness ==
    /\ entry = "extractor"
    /\ pc = "done"
    /\ req.app_data # None
    /\ req.app_data_wrapped # None
    /\ Unwrap(req.app_data).limit # Unwrap(req.app_data_wrapped).limit
    /\ Unwrap(req.app_data).err_handler # Unwrap(req.app_data_wrapped).err_handler
    /\ Unwrap(req.app_data).content_type # Unwrap(req.app_data_wrapped).content_type
    /\ limit = Unwrap(req.app_data).limit

\* the request carries no modified configuration: nothing attached, or
\* BincodeConfig::default() as it is
UnmodifiedConfig ==
    LET fresh == [limit |-> 32768, err_handler |-> <<>>, content_type |-> <<>>]
    IN \/ req.app_data = <<fresh>>
       \/ (req.app_data = <<>> /\ req.app_data_wrapped \in {<<>>, <<fresh>>})

\* C11: a body built without any configuration enforces 262,144 bytes until
\* limit() is called on it; the extractor with an unmodified configuration
\* enforces 32,768 bytes; the limit in force does not change once polling
\* has begun.
C11_TwoDefaultLimits ==
    /\ [][(pc = "start" /\ pc' # "start" /\ entry = "body") => limit' = 262144]_vars
    /\ []((entry = "extractor" /\ pc # "start" /\ UnmodifiedConfig)
            => limit = 32768)
    /\ [][(pc \notin {"start", "built"}) => limit' = limit]_vars
    /\ [][(pc = "built" /\ entry = "extractor") => limit' = limit]_vars

C11_Witness ==
    /\ entry = "body"
    /\ pc = "ready"
    /\ limit = 262144
    /\ eof
    /\ Total(delivered, Len(delivered)) > MaxLimit

FailureKinds == {"ContentType", "Overflow", "Deserialize", "Payload"}

\* a well-formed outcome: a value and no failure, or one failure and no value
OneOutcome(r) ==
    \/ (r.ok /\ r.val # <<>> /\ Unwrap(r.val) \in Values /\ r.err = "none")
    \/ (~r.ok /\ r.val = <<>> /\ r.err \in FailureKinds)

\* C12: a decode has an outcome exactly when it has finished, the outcome is
\* either a value or one failure kind, and once it is produced it never
\* changes: no further chunk is read, nothing is appended to the buffer and
\* the codec is not invoked again.
C12_OneTerminalOutcome ==
    /\ [](IsSome(res) <=> Finished)
    /\ [](IsSome(res) => OneOutcome(Unwrap(res)))
    /\ [][IsSome(res)
          => /\ res' = res
             /\ delivered' = delivered
             /\ body' = body
             /\ eof' = eof
             /\ codec_input' = codec_input]_vars
    /\ [][IsSome(out) => out' = out]_vars

\* a failure after a chunk was accepted, mapped by the extractor afterwards
C12_Witness ==
    /\ pc = "done"
    /\ Failed("Overflow")
    /\ Len(delivered) = 2
    /\ Len(body) >= 1
    /\ ~eof
    /\ codec_input = <<>>
    /\ ~Unwrap(out).ok

\* C14: the gate comes before the length check, the length check before the
\* first read, the size check before the append: a rejected descriptor with
\* a hint above the limit fails with ContentType, Overflow is only ever
\* produced for an accepted descriptor, anything is read only when the
\* descriptor was accepted and the hint is absent or within the limit, and
\* the buffer only grows by a chunk that fits.
C14_GateThenHintThenRead ==
    /\ []((Finished /\ ~Accepted /\ Hint # None /\ Unwrap(Hint) > limit)
            => (Failed("ContentType") /\ ~Failed("Overflow")))
    /\ [](Failed("Overflow") => Accepted)
    /\ []((delivered # <<>> \/ eof \/ fut # None)
            => (Accepted /\ HintWithin(limit)))
    /\ [][body' # body
          => /\ pc = "draining"
             /\ Len(delivered') = Len(delivered) + 1
             /\ body' = body \o delivered'[Len(delivered')].bytes
             /\ Len(body') <= limit]_vars

C14_Witness ==
    /\ entry = "extractor"
    /\ pc = "done"
    /\ ~Accepted
    /\ Hint = Some(2)
    /\ limit = 0
    /\ Failed("ContentType")
    /\ Unwrap(Unwrap(out).error).status = 400

\* C15: a read failure is the last item ever pulled and ends the operation
\* with Payload: the outcome holds no value and the codec was never invoked,
\* whatever was accumulated before.
C15_ReadFailureEndsWithPayload ==
    \A i \in 1..Len(delivered) :
        ~delivered[i].ok
        => /\ i = Len(delivered)
           /\ Finished
           /\ Failed("Payload")
           /\ Unwrap(res).val = <<>>
           /\ codec_input = <<>>
           /\ ~eof
           /\ body = Concat(SubSeq(delivered, 1, i - 1))

C15_Witness ==
    /\ Len(delivered) = 2
    /\ delivered[1].ok
    /\ Len(delivered[1].bytes) >= 1
    /\ ~delivered[2].ok
    /\ Failed("Payload")

\* the buffer starts with the encoding of a value
Decodable(buf) ==
    \E v \in Values :
        /\ Len(buf) >= Len(serialize(v))
        /\ SubSeq(buf, 1, Len(serialize(v))) = serialize(v)

\* C16: the codec runs at most once, only at end-of-data after intact chunks
\* and on the whole buffer; a buffer the codec rejects gives Deserialize.
C16_CodecOnceOnCompleteBuffer ==
    /\ Len(codec_input) <= 1
    /\ codec_input # <<>>
         => /\ eof
            /\ Finished
            /\ AllOk(delivered)
            /\ codec_input[1] = Concat(delivered)
    /\ eof => Len(codec_input) = 1
    /\ (eof /\ ~Decodable(Concat(delivered))) => Failed("Deserialize")
    /\ Failed("Deserialize") => (eof /\ ~Decodable(Concat(delivered)))

\* the tag of Some arrives, its payload never does
C16_Witness ==
    /\ eof
    /\ Len(delivered) = 2
    /\ codec_input = <<(<<1>>)>>
    /\ Failed("Deserialize")

\* a body of no bytes: nothing or only empty chunks came out of the stream
ZeroLengthBody == AllOk(delivered) /\ Total(delivered, Len(delivered)) = 0

\* C17 as stated: a zero-length body on an accepted request, for any limit,
\* completes with an empty buffer and is never Overflow or Payload.
C17_ZeroLengthCompletes ==
    (Finished /\ Accepted /\ ZeroLengthBody)
    => (eof /\ codec_input = <<(<<>>)>>
        /\ ~Failed("Overflow") /\ ~Failed("Payload"))

\* C17: a zero-length body on an accepted request whose length hint is absent,
\* unparseable or within the limit completes with an empty buffer for any
\* limit, 0 included, is never Overflow or Payload, and its outcome is the
\* codec's verdict on the empty buffer.
C17_ZeroLengthCompletesWithinHint ==
    (Finished /\ Accepted /\ HintWithin(limit) /\ ZeroLengthBody)
    => /\ eof
       /\ body = <<>>
       /\ codec_input = <<(<<>>)>>
       /\ ~Failed("Overflow")
       /\ ~Failed("Payload")
       /\ IF \E v \in Values : serialize(v) = <<>>
          THEN Unwrap(res).ok
          ELSE Failed("Deserialize")

C17_Witness ==
    /\ Finished
    /\ Accepted
    /\ limit = 0
    /\ delivered = <<ChunkItem(<<>>)>>
    /\ eof
    /\ Failed("Deserialize")

\* the Content-Length header is absent or is not a number
NoHint ==
    req.content_length \in {<<>>, <<(<<"x">>)>>, <<(<<"-", "1">>)>>, <<(<<"0xFF">>)>>}

\* what the per-chunk check and the codec give for the items pulled
StreamOutcome(r) ==
    IF \E i \in 1..Len(delivered) : ~delivered[i].ok
    THEN r = [ok |-> FALSE, val |-> <<>>, err |-> "Payload"]
    ELSE IF Total(delivered, Len(delivered)) > limit
    THEN r = [ok |-> FALSE, val |-> <<>>, err |-> "Overflow"]
    ELSE /\ eof
         /\ IF Decodable(Concat(delivered))
            THEN /\ r.ok
                 /\ SubSeq(Concat(delivered), 1, Len(serialize(Unwrap(r.val))))
                      = serialize(Unwrap(r.val))
            ELSE r = [ok |-> FALSE, val |-> <<>>, err |-> "Deserialize"]

\* C18: an absent or unparseable length hint is ignored: the body holds no
\* length, the first poll goes on to drain the stream, and the outcome is the
\* one the per-chunk check and the codec give for the stream.
C18_UnparseableHintIgnored ==
    (pc # "start" /\ Accepted /\ NoHint)
    => /\ length = <<>>
       /\ pc # "built" => fut # <<>>
       /\ Finished => StreamOutcome(Unwrap(res))

\* "-1" declared, limit 0: the first byte sent is what fails, not the header
C18_Witness ==
    /\ req.content_length = Some(<<"-", "1">>)
    /\ limit = 0
    /\ Finished
    /\ Len(delivered) = 1
    /\ Len(delivered[1].bytes) = 1
    /\ Failed("Overflow")

\* the bincode encoding of an Option<bool>, byte by byte
Encoding(v) ==
    IF v = <<>> THEN <<0>> ELSE IF v = <<TRUE>> THEN <<1, 1>> ELSE <<1, 0>>

\* C13: Bincode(v) answers 200 with content type "application/bincode" and
\* the encoding of v as body, which decodes to v, when v serializes, and 500
\* without any encoded value when it does not; the response builder's
\* bincode2 sets the same content type and body, and answers 500 on failure.
C13_ResponderEncodes ==
    resp # <<>>
    => LET in == resp_in[1]
           r == resp[1]
       IN IF in.value.serializable
          THEN /\ r.content_type = "application/bincode"
               /\ r.body = Encoding(in.value.val)
               /\ deserialize(r.body) =
                     [ok |-> TRUE, val |-> <<in.value.val>>, err |-> "none"]
               /\ r.status = IF in.api = "respond_to" THEN 200 ELSE in.status
          ELSE /\ r.status = 500
               /\ r.body = <<>>
               /\ r.content_type # "application/bincode"

C13_Witness ==
    /\ resp # <<>>
    /\ resp_in[1].api = "respond_to"
    /\ resp_in[1].value = [serializable |-> TRUE, val |-> <<TRUE>>]
    /\ resp[1].status = 200
    /\ resp[1].body = <<1, 1>>

\* items the loop has taken from the stream, the end-of-data signal included
Consumed(items, ended) == Len(items) + (IF ended THEN 1 ELSE 0)

\* C19: a decode is suspended only inside the draining loop, with no item
\* waiting; a rejected content type and a length hint above the limit end
\* the first poll with the failure, unsuspended and with nothing read; every
\* item the loop consumes is one item the stream delivered.
C19_SuspendsOnlyAwaitingChunk ==
    /\ [](suspended => /\ pc = "draining"
                       /\ res = <<>>
                       /\ Accepted
                       /\ HintWithin(limit))
    /\ [][(~suspended /\ suspended')
          => /\ ~arrived
             /\ pc = "draining"
             /\ delivered' = delivered /\ body' = body /\ eof' = eof]_vars
    /\ [][(pc = "built" /\ pc' # "built" /\ (Rejected \/ ~HintWithin(limit)))
          => /\ pc' = "ready"
             /\ ~suspended'
             /\ delivered' = <<>> /\ ~eof'
             /\ res' = <<[ok |-> FALSE, val |-> <<>>,
                          err |-> IF Rejected THEN "ContentType"
                                  ELSE "Overflow"]>>]_vars
    /\ [][Consumed(delivered', eof') # Consumed(delivered, eof)
          => /\ arrived /\ ~arrived'
             /\ Consumed(delivered', eof') = Consumed(delivered, eof) + 1]_vars

C19_Witness ==
    /\ suspended
    /\ ~arrived
    /\ pc = "draining"
    /\ Len(delivered) = 1
    /\ body = delivered[1].bytes
    /\ Len(body) = MaxChunkLen

\* C20: a decode that keeps being polled, on a stream that delivers all its
\* items and the end of the data, eventually has its outcome; it does not
\* stay in the draining loop forever.
C20_EventuallyOutcome ==
    /\ (pc \in {"built", "draining"}) ~> (res # <<>> /\ pc \in {"ready", "done"})
    /\ [](res # <<>> => res[1].ok \/ res[1].err \in FailureKinds)

C20_Witness ==
    /\ entry = "body"
    /\ pc = "ready"
    /\ eof
    /\ Len(delivered) = MaxChunks
    /\ res # <<>>
    /\ res[1].ok

\* what a decode yields when it runs alone on request rq (its configuration
\* attached or not) and has taken items from its stream, ended or not
LimitOf(rq) == IF rq.app_data # <<>> THEN rq.app_data[1].limit ELSE 32768

\* the length the request declares, when its header holds a decimal number
HintOf(rq) ==
    IF \E n \in 0..MaxHint : rq.content_length = <<ToDecimal(n)>>
    THEN <<CHOOSE n \in 0..MaxHint : rq.content_length = <<ToDecimal(n)>> >>
    ELSE <<>>

\* bincode::deserialize reads a value from the front of the buffer
StartsWith(buf, p) == Len(buf) >= Len(p) /\ SubSeq(buf, 1, Len(p)) = p

BufferAlone(rq, items) ==
    IF Total(items, Len(items)) > LimitOf(rq)
    THEN Concat(SubSeq(items, 1, Len(items) - 1))
    ELSE Concat(items)

OutcomeAlone(rq, items, ended) ==
    IF rq.mime \notin {"application/bincode", "bincode"}
    THEN <<[ok |-> FALSE, val |-> <<>>, err |-> "ContentType"]>>
    ELSE IF HintOf(rq) # <<>> /\ HintOf(rq)[1] > LimitOf(rq)
    THEN <<[ok |-> FALSE, val |-> <<>>, err |-> "Overflow"]>>
    ELSE IF \E k \in 1..Len(items) : ~items[k].ok
    THEN <<[ok |-> FALSE, val |-> <<>>, err |-> "Payload"]>>
    ELSE IF Total(items, Len(items)) > LimitOf(rq)
    THEN <<[ok |-> FALSE, val |-> <<>>, err |-> "Overflow"]>>
    ELSE IF ~ended THEN <<>>
    ELSE IF \E v \in Values : StartsWith(Concat(items), Encoding(v))
    THEN <<[ok |-> TRUE,
            val |-> <<CHOOSE v \in Values :
                        StartsWith(Concat(items), Encoding(v))>>,
            err |-> "none"]>>
    ELSE <<[ok |-> FALSE, val |-> <<>>, err |-> "Deserialize"]>>

\* C21: with several decodes interleaved step by step, a step of one decode
\* changes nothing of another; once a decode has been built from its
\* request, its limit, buffer and outcome are those of the same request,
\* configuration and stream taken alone; the process-wide default
\* configuration keeps its value through every resolution and every
\* configuration built from it.
C21_DecodesAreIndependent ==
    /\ [][\A i \in 1..NumOps :
            ops'[i] # ops[i] => \A j \in (1..NumOps) \ {i} : ops'[j] = ops[j]]_vars
    /\ [](\A i \in 1..NumOps :
            ops[i].pc # "start"
            => /\ ops[i].limit = LimitOf(ops[i].req)
               /\ ops[i].body = BufferAlone(ops[i].req, ops[i].delivered)
               /\ ops[i].pc \in {"draining", "ready"}
                    => ops[i].res = OutcomeAlone(ops[i].req, ops[i].delivered,
                                                 ops[i].eof))
    /\ [](default_config =
            [limit |-> 32768, err_handler |-> <<>>, content_type |-> <<>>])

\* two decodes in the middle of their streams, under different limits
C21_Witness ==
    /\ ops[1].pc = "draining"
    /\ ops[2].pc = "draining"
    /\ ops[1].req.app_data = <<>>
    /\ ops[1].limit = 32768
    /\ ops[2].limit = MaxLimit
    /\ ops[1].body = <<1>>
    /\ ops[2].body = <<0, 0>>
    /\ ops[2].req.content_length # <<>>

\* C22: in the extractor the body enforces the limit of the configuration
\* the request resolves to, never its own built-in 262,144, whether the
\* gate accepts the request or not; with no configuration attached that is
\* 32,768; an accepted request fails with Overflow exactly when its hint or
\* the bytes read exceed that limit.
C22_ExtractorEnforcesResolvedLimit ==
    (entry = "extractor" /\ pc # "start")
    => /\ limit = Resolved.limit
       /\ limit # 262144
       /\ (req.app_data = <<>> /\ req.app_data_wrapped = <<>>) => limit = 32768
       /\ (Finished /\ Accepted)
            => (Failed("Overflow")
                <=> \/ ~HintWithin(Resolved.limit)
                    \/ Total(delivered, Len(delivered)) > Resolved.limit)

\* no configuration attached: four bytes, more than any configured limit of
\* the model, are decoded under 32,768
C22_Witness ==
    /\ entry = "extractor"
    /\ pc = "done"
    /\ req.app_data = <<>>
    /\ req.app_data_wrapped = <<>>
    /\ limit = 32768
    /\ Total(delivered, Len(delivered)) = MaxChunks * MaxChunkLen
    /\ eof
    /\ res # <<>>
    /\ res[1].ok

====
